---- MODULE Spec2Model ----
(***************************************************************************)
(* A model of the terminal music player (src/music_cli.py) and of the     *)
(* one-shot player script (src/play.py).                                   *)
(*                                                                         *)
(* Strings whose content matters (titles, paths, lines of a file) are      *)
(* sequences of tokens: a token is one character, or a run of characters   *)
(* none of which is special to JSON or to the file system ("timestamp",    *)
(* "music", ".mp3").  Configuration values are atomic strings.             *)
(***************************************************************************)
EXTENDS Integers, Sequences, FiniteSets, TLC

VARIABLES
    phase,            \* the music_cli process: "start", "running", "crashed", "exited"
    exc,              \* the exception that ended the process ("none" while it lives)
    configFile,       \* music_config.json on disk: [exists, data]
    config,           \* MusicPlayer.config
    current_process,  \* MusicPlayer.current_process: 0 is None, else an index of procs
    paused,           \* MusicPlayer.paused
    procs,            \* every player subprocess spawned so far, in spawn order
    histFile,         \* the history file on disk: [exists, data]
    library,          \* the rows of table songs, in rowid order: <<title, path>>
    mainpc,           \* the main thread: "cmd" (in cmdloop) or "play_song"
    pending,          \* the arguments of the _play_song call in progress
    listeners,        \* the _terminal_playback_controls threads started so far
    logged,           \* history: the entries appended since the log was last empty
    histClean,        \* history: the log was empty when `logged` began
    histRead,         \* the outcome of the last get_history call
    dirs,             \* the directories that exist on disk
    last              \* the operation the last step performed, and its outcome

vars == <<phase, exc, configFile, config, current_process, paused, procs, histFile,
          library, mainpc, pending, listeners, logged, histClean, histRead, dirs,
          last>>

----------------------------------------------------------------------------
(* Bounds of the model *)

\* the number of player processes, and of listener threads, a behaviour starts
MaxPlays == 2
\* the number of entries _log_history called alone, and play.py, append to the history
\* before it is next cleared
MaxHist == 2

----------------------------------------------------------------------------
(* Strings *)

NL == "\n"
QT == "\""
BS == "\\"

RECURSIVE Concat(_)
Concat(ss) ==
    IF ss = <<>> THEN <<>> ELSE Head(ss) \o Concat(Tail(ss))

Last(s) == s[Len(s)]

\* os.path.basename: what follows the last "/"
RECURSIVE basename(_)
basename(p) ==
    IF p = <<>> THEN <<>>
    ELSE IF Last(p) = "/" THEN <<>>
    ELSE Append(basename(SubSeq(p, 1, Len(p) - 1)), Last(p))

----------------------------------------------------------------------------
(* JSON, as json.dumps writes it and json.loads reads it, for objects whose *)
(* keys and values are strings.                                             *)

\* a character of a string, as json.dumps writes it inside the quotes
EscapeCharNoNewline(c) ==
    IF c = QT THEN <<BS, QT>>
    ELSE IF c = BS THEN <<BS, BS>>
    ELSE <<c>>

EscapeChar(c) ==
    IF c = QT THEN <<BS, QT>>
    ELSE IF c = BS THEN <<BS, BS>>
    ELSE IF c = NL THEN <<BS, "n">>
    ELSE <<c>>

DumpStr(s) ==
    <<QT>> \o Concat([i \in 1..Len(s) |-> EscapeChar(s[i])]) \o <<QT>>

\* json.dumps of a dict whose keys, in insertion order, are `keys`
RECURSIVE DumpMembers(_, _)
DumpMembers(keys, obj) ==
    IF keys = <<>> THEN <<>>
    ELSE DumpStr(Head(keys)) \o <<":">> \o DumpStr(obj[Head(keys)])
         \o (IF Len(keys) > 1 THEN <<",">> ELSE <<>>)
         \o DumpMembers(Tail(keys), obj)

Dumps(keys, obj) == <<"{">> \o DumpMembers(keys, obj) \o <<"}">>

ParseFail == [ok |-> FALSE, val |-> <<>>, next |-> 0]

\* the rest of a string literal, from position i to its closing quote
RECURSIVE ParseStrBody(_, _, _)
ParseStrBody(t, i, acc) ==
    IF i > Len(t) THEN ParseFail
    ELSE IF t[i] = QT THEN [ok |-> TRUE, val |-> acc, next |-> i + 1]
    ELSE IF t[i] = NL THEN ParseFail
    ELSE IF t[i] = BS THEN
        IF i + 1 > Len(t) THEN ParseFail
        ELSE IF t[i + 1] \in {QT, BS} THEN ParseStrBody(t, i + 2, Append(acc, t[i + 1]))
        ELSE IF t[i + 1] = "n" THEN ParseStrBody(t, i + 2, Append(acc, NL))
        ELSE ParseFail
    ELSE ParseStrBody(t, i + 1, Append(acc, t[i]))

ParseStr(t, i) ==
    IF i <= Len(t) /\ t[i] = QT THEN ParseStrBody(t, i + 1, <<>>) ELSE ParseFail

\* the members of an object from position i: "key": "value" pairs up to the brace
RECURSIVE ParseMembers(_, _, _)
ParseMembers(t, i, obj) ==
    LET k == ParseStr(t, i) IN
    IF ~k.ok \/ k.next > Len(t) \/ t[k.next] # ":" THEN ParseFail
    ELSE LET v == ParseStr(t, k.next + 1)
             o == (k.val :> v.val) @@ obj
         IN  IF ~v.ok \/ v.next > Len(t) THEN ParseFail
             ELSE IF t[v.next] = "," THEN ParseMembers(t, v.next + 1, o)
             ELSE IF t[v.next] = "}" THEN [ok |-> TRUE, val |-> o, next |-> v.next + 1]
             ELSE ParseFail

\* json.loads of one line: [ok, val]; ~ok is json.JSONDecodeError
Loads(t) ==
    LET body ==
            IF Len(t) < 2 \/ t[1] # "{" THEN ParseFail
            ELSE IF t[2] = "}" THEN [ok |-> TRUE, val |-> <<>>, next |-> 3]
            ELSE ParseMembers(t, 2, <<>>)
    IN  IF body.ok /\ \A j \in body.next..Len(t) : t[j] = NL
        THEN [ok |-> TRUE, val |-> body.val]
        ELSE [ok |-> FALSE, val |-> <<>>]

\* the positions of the newlines of a file
Newlines(data) == {i \in 1..Len(data) : data[i] = NL}

\* the position of the k-th newline
NewlineAt(data, k) ==
    CHOOSE i \in Newlines(data) : Cardinality({j \in Newlines(data) : j <= i}) = k

\* f.readlines(): the lines of a file, each with its newline (the last may have none)
readlines(data) ==
    LET n == Cardinality(Newlines(data))
        m == IF data # <<>> /\ Last(data) # NL THEN n + 1 ELSE n
    IN  [k \in 1..m |->
            SubSeq(data, IF k = 1 THEN 1 ELSE NewlineAt(data, k - 1) + 1,
                         IF k <= n THEN NewlineAt(data, k) ELSE Len(data))]

----------------------------------------------------------------------------
(* History log *)

EntryKeys == << <<"timestamp">>, <<"action">>, <<"title">> >>

\* the entry _log_history builds
Entry(now, title) ==
    (<<"timestamp">> :> now) @@ (<<"action">> :> <<"play">>) @@ (<<"title">> :> title)

\* _log_history: the file after appending the entry's line
_log_history(f, now, title) ==
    [exists |-> TRUE, data |-> f.data \o Dumps(EntryKeys, Entry(now, title)) \o <<NL>>]

PyEntryKeys == << <<"title">>, <<"timestamp">> >>

PyEntry(now, title) == (<<"title">> :> title) @@ (<<"timestamp">> :> now)

\* play.py log_play
log_play(f, now, title) ==
    [exists |-> TRUE, data |-> f.data \o Dumps(PyEntryKeys, PyEntry(now, title)) \o <<NL>>]

\* get_history: [raised, value]; raised names the exception that escapes
get_history(f) ==
    IF ~f.exists THEN [raised |-> "none", value |-> <<>>]
    ELSE LET lines  == readlines(f.data)
             parsed == [i \in 1..Len(lines) |-> Loads(lines[i])]
         IN  IF \E i \in 1..Len(lines) : ~parsed[i].ok
             THEN [raised |-> "JSONDecodeError", value |-> <<>>]
             ELSE [raised |-> "none", value |-> [i \in 1..Len(lines) |-> parsed[i].val]]

\* clear_history
clear_history(f) == [exists |-> TRUE, data |-> <<>>]

----------------------------------------------------------------------------
(* Configuration *)

CONFIG_FILE == "music_config.json"

DEFAULT_CONFIG ==
    [player |-> "terminal", theme |-> "dark", download_dir |-> "music",
     history_file |-> "history.json", library_db |-> "library.db", show_logs |-> FALSE]

THEMES == {"dark", "light", "retro"}

DefaultKeys ==
    <<"player", "theme", "download_dir", "history_file", "library_db", "show_logs">>

\* the one-token string a configuration key or value is, as the tokens of a string
Tokens(s) == IF s = "" THEN <<>> ELSE <<s>>

Atom(ts) == IF ts = <<>> THEN "" ELSE ts[1]

RECURSIVE SetToSeq(_)
SetToSeq(S) ==
    IF S = {} THEN <<>>
    ELSE LET x == CHOOSE y \in S : TRUE IN <<x>> \o SetToSeq(S \ {x})

\* the keys of a configuration dict in iteration order: those of DEFAULT_CONFIG, which
\* {**DEFAULT_CONFIG, ...} inserts first, then the others
ConfigKeys(c) ==
    DefaultKeys \o SetToSeq(DOMAIN c \ {DefaultKeys[i] : i \in 1..Len(DefaultKeys)})

\* a value as json.dump writes it: a bool as true or false, a str in quotes.  Of the
\* configurations of this model, show_logs holds a bool and every other key a str
DumpValue(k, v) ==
    IF k = "show_logs" THEN (IF v THEN <<"true">> ELSE <<"false">>)
    ELSE DumpStr(Tokens(v))

\* json.dump of a dict, with the default separators ", " and ": "
RECURSIVE DumpConfigMembers(_, _)
DumpConfigMembers(keys, c) ==
    IF keys = <<>> THEN <<>>
    ELSE DumpStr(Tokens(Head(keys))) \o <<":", " ">> \o DumpValue(Head(keys), c[Head(keys)])
         \o (IF Len(keys) > 1 THEN <<",", " ">> ELSE <<>>)
         \o DumpConfigMembers(Tail(keys), c)

ConfigDumps(keys, c) == <<"{">> \o DumpConfigMembers(keys, c) \o <<"}">>

\* the white space json.load skips between the tokens of a document
RECURSIVE SkipWs(_, _)
SkipWs(t, i) ==
    IF i <= Len(t) /\ t[i] \in {" ", NL} THEN SkipWs(t, i + 1) ELSE i

\* a JSON value at position i: a string of at most one token, true or false
ParseValue(t, i) ==
    IF i > Len(t) THEN ParseFail
    ELSE IF t[i] = QT THEN
        LET s == ParseStr(t, i) IN
        IF s.ok /\ Len(s.val) <= 1
        THEN [ok |-> TRUE, val |-> Atom(s.val), next |-> s.next]
        ELSE ParseFail
    ELSE IF t[i] = "true" THEN [ok |-> TRUE, val |-> TRUE, next |-> i + 1]
    ELSE IF t[i] = "false" THEN [ok |-> TRUE, val |-> FALSE, next |-> i + 1]
    ELSE ParseFail

\* the members of a JSON object from position i; of two members of one key the later wins
RECURSIVE ParseConfigMembers(_, _, _)
ParseConfigMembers(t, i, obj) ==
    LET k == ParseStr(t, SkipWs(t, i))
        c == IF k.ok THEN SkipWs(t, k.next) ELSE 0
    IN  IF ~k.ok \/ Len(k.val) > 1 \/ c > Len(t) \/ t[c] # ":" THEN ParseFail
        ELSE LET v == ParseValue(t, SkipWs(t, c + 1))
                 e == IF v.ok THEN SkipWs(t, v.next) ELSE 0
                 o == (Atom(k.val) :> v.val) @@ obj
             IN  IF ~v.ok \/ e > Len(t) THEN ParseFail
                 ELSE IF t[e] = "," THEN ParseConfigMembers(t, e + 1, o)
                 ELSE IF t[e] = "}" THEN [ok |-> TRUE, val |-> o, next |-> e + 1]
                 ELSE ParseFail

\* json.load of a file holding an object: [ok, val]; ~ok is json.JSONDecodeError
ConfigLoads(t) ==
    LET b == SkipWs(t, 1)
        m == SkipWs(t, b + 1)
        body ==
            IF b > Len(t) \/ t[b] # "{" THEN ParseFail
            ELSE IF m <= Len(t) /\ t[m] = "}" THEN [ok |-> TRUE, val |-> <<>>, next |-> m + 1]
            ELSE ParseConfigMembers(t, b + 1, <<>>)
    IN  IF body.ok /\ SkipWs(t, body.next) > Len(t)
        THEN [ok |-> TRUE, val |-> body.val]
        ELSE [ok |-> FALSE, val |-> <<>>]

\* a merge in which the first dict wins: {**b, **a}
Merge_first_wins(a, b) ==
    [k \in DOMAIN a \cup DOMAIN b |-> IF k \in DOMAIN a THEN a[k] ELSE b[k]]

\* {**a, **b}
Merge(a, b) ==
    [k \in DOMAIN a \cup DOMAIN b |-> IF k \in DOMAIN b THEN b[k] ELSE a[k]]

\* _load_config: [raised, value]; cf is the file, [exists, data]
_load_config(cf) ==
    IF ~cf.exists THEN [raised |-> "none", value |-> DEFAULT_CONFIG]
    ELSE LET p == ConfigLoads(cf.data) IN
         IF ~p.ok THEN [raised |-> "JSONDecodeError", value |-> DEFAULT_CONFIG]
         ELSE [raised |-> "none", value |-> Merge(DEFAULT_CONFIG, p.val)]

\* a save that writes the keys of DEFAULT_CONFIG alone
_save_config_known_keys(c) == [exists |-> TRUE, data |-> ConfigDumps(DefaultKeys, c)]

\* _save_config: the file after json.dump(self.config, f)
_save_config(c) == [exists |-> TRUE, data |-> ConfigDumps(ConfigKeys(c), c)]

\* str.lower, on the answers the prompts are given
lower(s) ==
    CASE s = "VLC" -> "vlc"
      [] s = "Y" -> "y"
      [] s = "Retro" -> "retro"
      [] OTHER -> s

\* x or d, for a string x
OrDefault(x, d) == IF x = "" THEN d ELSE x

----------------------------------------------------------------------------
(* Library catalog *)

HasTitle(lib, title) == \E i \in 1..Len(lib) : lib[i][1] = title

\* INSERT into songs with no conflict clause honoured
_add_to_library_plain(lib, title, path) == Append(lib, <<title, path>>)

\* _add_to_library: INSERT OR IGNORE under UNIQUE(title)
_add_to_library(lib, title, path) ==
    IF HasTitle(lib, title) THEN lib ELSE Append(lib, <<title, path>>)

\* get_library: SELECT title, path FROM songs
get_library(lib) == lib

\* a path without the download directory: f"{title}.mp3"
DownloadPath_no_dir(c, title) == title \o <<".mp3">>

\* the path download() writes to: f"{download_dir}/{title}.mp3"
DownloadPath(c, title) == <<c.download_dir, "/">> \o title \o <<".mp3">>

----------------------------------------------------------------------------
(* Playback session *)

\* subprocess.Popen succeeded: the new process joins procs
Spawn(ps, hasStdin) ==
    Append(ps, [status |-> "alive", stdin |-> hasStdin])

\* current_process and current_process.poll() is None
IsRunning(ps, cp) == cp # 0 /\ ps[cp].status # "exited"

\* _play_in_terminal with the history entry written before the spawn is tried
_play_in_terminal_log_first(s, url, title, now, spawnOk) ==
    IF spawnOk
    THEN [ret |-> "True", spawned |-> TRUE, procs |-> Spawn(s.procs, TRUE),
          cp |-> Len(s.procs) + 1, hist |-> _log_history(s.hist, now, title)]
    ELSE [ret |-> "False", spawned |-> FALSE, procs |-> s.procs, cp |-> s.cp,
          hist |-> _log_history(s.hist, now, title)]

\* _play_in_terminal, on the session s = [procs, cp, hist]; spawnOk: Popen does not raise
_play_in_terminal(s, url, title, now, spawnOk) ==
    IF spawnOk
    THEN [ret |-> "True", spawned |-> TRUE, procs |-> Spawn(s.procs, TRUE),
          cp |-> Len(s.procs) + 1, hist |-> _log_history(s.hist, now, title)]
    ELSE [ret |-> "False", spawned |-> FALSE, procs |-> s.procs, cp |-> s.cp,
          hist |-> s.hist]

\* MusicPlayer.play; resolveOk: yt-dlp -g exits 0; spawnOk: Popen does not raise
play(c, s, url, title, now, resolveOk, spawnOk) ==
    IF c.player = "terminal" THEN _play_in_terminal(s, url, title, now, spawnOk)
    ELSE IF resolveOk /\ spawnOk
    THEN [ret |-> "True", spawned |-> TRUE, procs |-> Spawn(s.procs, FALSE),
          cp |-> Len(s.procs) + 1, hist |-> _log_history(s.hist, now, title)]
    ELSE [ret |-> "False", spawned |-> FALSE, procs |-> s.procs, cp |-> s.cp,
          hist |-> s.hist]

\* terminal_control with the handle dropped once the process is told to stop
terminal_control_drop(cp, ps, pz, action) ==
    IF IsRunning(ps, cp) THEN
        IF action = "pause" THEN
            IF ps[cp].stdin
            THEN [raised |-> "none", ret |-> "True", procs |-> ps, cp |-> cp, paused |-> ~pz]
            ELSE [raised |-> "AttributeError", ret |-> "raise", procs |-> ps, cp |-> cp,
                  paused |-> pz]
        ELSE IF action = "stop"
        THEN [raised |-> "none", ret |-> "True", cp |-> 0, paused |-> pz,
              procs |-> [ps EXCEPT ![cp].status = "terminating"]]
        ELSE [raised |-> "none", ret |-> "True", procs |-> ps, cp |-> cp, paused |-> pz]
    ELSE [raised |-> "none", ret |-> "False", procs |-> ps, cp |-> 0, paused |-> pz]

\* terminal_control; a process with no stdin pipe has stdin None, and writing to it
\* raises AttributeError; terminate() sends SIGTERM, the exit follows
terminal_control(cp, ps, pz, action) ==
    IF IsRunning(ps, cp) THEN
        IF action = "pause" THEN
            IF ps[cp].stdin
            THEN [raised |-> "none", ret |-> "True", procs |-> ps, cp |-> cp, paused |-> ~pz]
            ELSE [raised |-> "AttributeError", ret |-> "raise", procs |-> ps, cp |-> cp,
                  paused |-> pz]
        ELSE IF action = "stop"
        THEN [raised |-> "none", ret |-> "True", cp |-> cp, paused |-> pz,
              procs |-> [ps EXCEPT ![cp].status = "terminating"]]
        ELSE [raised |-> "none", ret |-> "True", procs |-> ps, cp |-> cp, paused |-> pz]
    ELSE [raised |-> "none", ret |-> "False", procs |-> ps, cp |-> cp, paused |-> pz]

----------------------------------------------------------------------------
(* Download pipeline *)

\* download with the catalog row written before the downloader's exit status is read
download_add_first(c, lib, url, title, outcome) ==
    IF outcome = "zero"
    THEN [ret |-> "True", lib |-> _add_to_library(lib, title, DownloadPath(c, title))]
    ELSE [ret |-> "False", lib |-> _add_to_library(lib, title, DownloadPath(c, title))]

\* download; outcome: the downloader's exit status is "zero" or "nonzero", or
\* running it raised ("raise")
download(c, lib, url, title, outcome) ==
    IF outcome = "zero"
    THEN [ret |-> "True", lib |-> _add_to_library(lib, title, DownloadPath(c, title))]
    ELSE [ret |-> "False", lib |-> lib]

----------------------------------------------------------------------------
(* The play command's resolution of its argument *)

Digits == {"0", "1", "2", "3", "4", "5", "6", "7", "8", "9"}

DigitValue(d) ==
    CASE d = "0" -> 0 [] d = "1" -> 1 [] d = "2" -> 2 [] d = "3" -> 3 [] d = "4" -> 4
      [] d = "5" -> 5 [] d = "6" -> 6 [] d = "7" -> 7 [] d = "8" -> 8 [] d = "9" -> 9

\* str.isdigit
isdigit(s) == s # <<>> /\ \A i \in 1..Len(s) : s[i] \in Digits

\* int(s), for s.isdigit()
RECURSIVE int(_)
int(s) ==
    IF s = <<>> THEN 0 ELSE 10 * int(SubSeq(s, 1, Len(s) - 1)) + DigitValue(Last(s))

\* seq[i] of a Python list (i counts from 0, a negative i from the end): [ok, val]
PyIndex(seq, i) ==
    IF 0 <= i /\ i < Len(seq) THEN [ok |-> TRUE, val |-> seq[i + 1]]
    ELSE IF i < 0 /\ -i <= Len(seq) THEN [ok |-> TRUE, val |-> seq[Len(seq) + i + 1]]
    ELSE [ok |-> FALSE, val |-> <<>>]

\* Search(arg).results[:5]
SearchLimit == 5

Min(a, b) == IF a < b THEN a ELSE b

\* listener: the listener thread _play_song started, 0 if none
NoSong == [url |-> <<>>, title |-> <<>>, listener |-> 0]

\* do_play up to the call it ends in: "play_song" (_play_song(url, title)), "play"
\* (player.play(url, title)), "none" (it returns) or "raise" (exc escapes); searched:
\* it reached Search(arg).  files: the paths that exist; reply: what Search(arg).results
\* does
do_play(arg, lib, files, choice, reply, choice2) ==
    LET songs == get_library(lib)
        pick  == PyIndex(songs, int(choice) - 1)
        arg2  == IF arg = <<>> THEN choice ELSE arg
        results == SubSeq(reply.results, 1, Min(SearchLimit, Len(reply.results)))
        video == PyIndex(results, int(choice2) - 1)
        ends(kind, e, at, url, title, searched) ==
            [kind |-> kind, exc |-> e, at |-> at, url |-> url, title |-> title,
             searched |-> searched]
    IN  IF arg = <<>> /\ isdigit(choice) THEN
            IF pick.ok
            THEN ends("play_song", "none", "", pick.val[2], pick.val[1], FALSE)
            ELSE ends("raise", "IndexError", "songs[int(choice)-1]", <<>>, <<>>, FALSE)
        ELSE IF arg2 \in files
        THEN ends("play_song", "none", "", arg2, basename(arg2), FALSE)
        ELSE IF ~reply.ok
        THEN ends("raise", "URLError", "Search(arg)", <<>>, <<>>, TRUE)
        ELSE IF isdigit(choice2) /\ 1 <= int(choice2) /\ int(choice2) <= SearchLimit THEN
            IF video.ok
            THEN ends("play", "none", "", video.val.watch_url, video.val.title, TRUE)
            ELSE ends("raise", "IndexError", "results[int(choice)-1]", <<>>, <<>>, TRUE)
        ELSE ends("none", "none", "", <<>>, <<>>, TRUE)

\* do_download up to its call of player.download: "download", "none" or "raise"
do_download(arg, reply) ==
    IF arg = <<>> THEN [kind |-> "none", exc |-> "none", at |-> "", url |-> <<>>, title |-> <<>>]
    ELSE IF ~reply.ok
    THEN [kind |-> "raise", exc |-> "URLError", at |-> "Search(arg)", url |-> <<>>,
              title |-> <<>>]
    ELSE IF reply.results = <<>>
    THEN [kind |-> "raise", exc |-> "IndexError", at |-> "results[0]", url |-> <<>>,
              title |-> <<>>]
    ELSE [kind |-> "download", exc |-> "none", at |-> "", url |-> reply.results[1].watch_url,
          title |-> reply.results[1].title]

----------------------------------------------------------------------------
(* Startup helpers *)

\* _setup_initial_config: the configuration after the first-run prompts
_setup_initial_config(c, pl, th, dd, sl) ==
    [c EXCEPT !.player = OrDefault(lower(pl), "terminal"),
              !.theme = OrDefault(lower(th), "dark"),
              !.download_dir = OrDefault(dd, "music"),
              !.show_logs = (lower(sl) = "y")]

\* _init_data_dir: the history file afterwards
_init_data_dir(f) == IF f.exists THEN f ELSE [exists |-> TRUE, data |-> <<>>]

----------------------------------------------------------------------------
(* The environment: what the user types, what is on disk, what the         *)
(* collaborators answer.                                                   *)

\* the files os.path.exists finds
LocalFiles == {<<"/", "a">>}

V1 == [watch_url |-> <<"u1">>, title |-> <<"b">>]
V2 == [watch_url |-> <<"u2">>, title |-> <<"c", QT>>]
V3 == [watch_url |-> <<"u3">>, title |-> <<"d">>]

Unreachable == [ok |-> FALSE, results |-> <<>>]
Found(vs) == [ok |-> TRUE, results |-> vs]

\* Search(arg).results: it raises (~ok), or returns a list
SearchReplies == {Unreachable, Found(<<>>), Found(<<V1>>), Found(<<V2, V1>>)}

\* what the user gives do_play: the argument, the answer to the library prompt, what
\* the search returns, the answer to the results prompt
PlayInput(arg, choice, reply, choice2) ==
    [arg |-> arg, choice |-> choice, reply |-> reply, choice2 |-> choice2]

PlayInputs ==
    {PlayInput(<<>>, c, Unreachable, <<>>) : c \in {<<"0">>, <<"1">>, <<"2">>}}
    \cup {PlayInput(<<"/", "a">>, <<>>, Unreachable, <<>>)}
    \cup {PlayInput(a, <<"q">>, r, c) :
             a \in {<<>>, <<"q">>}, r \in SearchReplies, c \in {<<"1">>, <<"2">>, <<"6">>, <<"x">>}}

DownloadOutcomes == {"zero", "nonzero", "raise"}

ListenerInputs == {"p", "s", "x"}

\* music_config.json as an earlier run, or an editor, left it: absent, cut short,
\* typed by hand with one key, saved with keys this version does not know, and saved
\* by this version
ConfigFiles ==
    {[exists |-> FALSE, data |-> <<>>],
     [exists |-> TRUE, data |-> <<"{", QT, "theme">>],
     [exists |-> TRUE, data |-> <<"{", QT, "player", QT, ":", QT, "vlc", QT, "}", NL>>],
     [exists |-> TRUE, data |->
         ConfigDumps(<<"theme", "volume", "note">>,
                     [theme |-> "retro", volume |-> "11", note |-> QT])],
     [exists |-> TRUE, data |->
         ConfigDumps(DefaultKeys, [DEFAULT_CONFIG EXCEPT !.player = "mpv", !.show_logs = TRUE])]}

GoodLine == Dumps(EntryKeys, Entry(<<"t0">>, <<"z">>)) \o <<NL>>
BadLine == <<"{", QT, "title", NL>>

\* the history file as an earlier run left it
HistFiles ==
    {[exists |-> FALSE, data |-> <<>>], [exists |-> TRUE, data |-> <<>>],
     [exists |-> TRUE, data |-> GoodLine], [exists |-> TRUE, data |-> GoodLine \o BadLine],
     [exists |-> TRUE, data |-> <<NL>>]}

\* table songs as an earlier run left it
Libraries == {<<>>, << <<V1.title, <<"old", "/">> \o V1.title \o <<".mp3">> >> >>}

NoRead == [raised |-> "none", value |-> <<>>]

\* last: the operation, what it returned, the title and url it was given, what the
\* environment did to it (env); for the play command and play.py, what the user gave
\* (inp, <<>> if nothing) and whether the search was consulted; for a listener's turn,
\* the listener and the process that its command reached (0 if none)
Did(op, ret) ==
    [op |-> op, ret |-> ret, title |-> <<>>, url |-> <<>>, env |-> "none",
     inp |-> <<>>, searched |-> FALSE, listener |-> 0, target |-> 0]

\* the play command, or play.py, was given inp, and did or did not consult the search
Given(l, inp, searched) == [l EXCEPT !.inp = <<inp>>, !.searched = searched]

\* the process has not started: what is on disk is what earlier runs left
Init ==
    /\ phase = "start"
    /\ exc = "none"
    /\ configFile \in ConfigFiles
    /\ config = DEFAULT_CONFIG
    /\ current_process = 0
    /\ paused = FALSE
    /\ procs = <<>>
    /\ histFile \in HistFiles
    /\ library \in Libraries
    /\ mainpc = "cmd"
    /\ pending = NoSong
    /\ listeners = <<>>
    /\ logged = <<>>
    /\ histClean = (histFile.data = <<>>)
    /\ histRead = NoRead
    /\ dirs = {}
    /\ last = Did("none", "None")

\* MusicCLI() is constructed with configuration c, over history file f and catalog lib
Constructed(c, f, lib) ==
    /\ phase = "running"
    /\ exc = "none"
    /\ configFile = _save_config(c)
    /\ config = c
    /\ current_process = 0
    /\ paused = FALSE
    /\ procs = <<>>
    /\ histFile = _init_data_dir(f)
    /\ library = lib
    /\ mainpc = "cmd"
    /\ pending = NoSong
    /\ listeners = <<>>
    /\ logged = <<>>
    /\ histClean = (f.data = <<>>)
    /\ histRead = NoRead
    /\ dirs = {c.download_dir}
    /\ last = Did("startup", "None")

----------------------------------------------------------------------------
(* Startup: MusicPlayer.__init__ and MusicCLI.__init__ *)

\* exception e escapes command op from the statement `at`: cmdloop ends
Crash(e, op, at) ==
    /\ phase' = "crashed"
    /\ exc' = e
    /\ last' = [Did(op, "raise") EXCEPT !.env = at]

Startup(pl, th, dd, sl) ==
    /\ phase = "start"
    /\ LET lc == _load_config(configFile)
           first == ~configFile.exists
           c1 == IF first THEN _setup_initial_config(lc.value, pl, th, dd, sl)
                 ELSE lc.value
       IN  IF lc.raised # "none"
           THEN /\ Crash(lc.raised, "startup", "json.load(f)")
                /\ UNCHANGED <<configFile, config, dirs, histFile>>
           ELSE /\ dirs' = dirs \cup {lc.value.download_dir}
                /\ histFile' = _init_data_dir(histFile)
                /\ config' = c1
                /\ configFile' = IF first THEN _save_config(c1) ELSE configFile
                /\ IF c1.theme \in THEMES
                   THEN phase' = "running" /\ exc' = "none" /\ last' = Did("startup", "None")
                   ELSE Crash("KeyError", "startup", "THEMES[theme]")
    /\ current_process' = 0
    /\ paused' = FALSE
    /\ UNCHANGED <<procs, library, mainpc, pending, listeners, logged, histClean, histRead>>

----------------------------------------------------------------------------
(* Commands of the main thread *)

AtPrompt == phase = "running" /\ mainpc = "cmd"

Session == [procs |-> procs, cp |-> current_process, hist |-> histFile]

\* the effect of a player.play(url, title) call; from: what the step did before it
CallPlay(url, title, now, resolveOk, spawnOk, from) ==
    LET r == play(config, Session, url, title, now, resolveOk, spawnOk) IN
    /\ procs' = r.procs
    /\ current_process' = r.cp
    /\ histFile' = r.hist
    /\ logged' = IF r.hist # histFile THEN Append(logged, Entry(now, title)) ELSE logged
    /\ last' = [from EXCEPT !.op = "play", !.ret = r.ret, !.title = title, !.url = url,
                             !.env = IF spawnOk /\ (resolveOk \/ config.player = "terminal")
                                     THEN "spawned" ELSE "failed"]

\* do_play: it raises, returns, calls player.play, or enters _play_song, which
\* starts the listener thread before it calls player.play
DoPlay(inp, now, resolveOk, spawnOk) ==
    /\ AtPrompt
    /\ Len(procs) < MaxPlays
    /\ Len(listeners) < MaxPlays
    /\ LET r == do_play(inp.arg, library, LocalFiles, inp.choice, inp.reply, inp.choice2)
           did == Given(Did("do_play", "None"), inp, r.searched)
       IN
       CASE r.kind = "raise" ->
              /\ phase' = "crashed"
              /\ exc' = r.exc
              /\ last' = [did EXCEPT !.ret = "raise", !.env = r.at]
              /\ UNCHANGED <<procs, current_process, histFile, logged, mainpc, pending,
                             listeners>>
         [] r.kind = "none" ->
              /\ last' = did
              /\ UNCHANGED <<phase, exc, procs, current_process, histFile, logged, mainpc,
                             pending, listeners>>
         [] r.kind = "play" ->
              /\ CallPlay(r.url, r.title, now, resolveOk, spawnOk, did)
              /\ UNCHANGED <<phase, exc, mainpc, pending, listeners>>
         [] r.kind = "play_song" ->
              /\ mainpc' = "play_song"
              /\ pending' = [url |-> r.url, title |-> r.title,
                             listener |-> IF config.player = "terminal"
                                          THEN Len(listeners) + 1 ELSE 0]
              /\ listeners' = IF config.player = "terminal"
                              THEN Append(listeners, [state |-> "running", spawn |-> "pending",
                                                      proc |-> 0])
                              ELSE listeners
              /\ last' = did
              /\ UNCHANGED <<phase, exc, procs, current_process, histFile, logged>>
    /\ UNCHANGED <<configFile, config, paused, library, histClean, histRead, dirs>>

\* _play_song, from its call of player.play
PlaySong(now, resolveOk, spawnOk) ==
    /\ phase = "running"
    /\ mainpc = "play_song"
    /\ CallPlay(pending.url, pending.title, now, resolveOk, spawnOk, Did("play", "None"))
    /\ mainpc' = "cmd"
    /\ pending' = NoSong
    /\ listeners' =
          IF pending.listener = 0 THEN listeners
          ELSE [listeners EXCEPT ![pending.listener] =
                   IF Len(procs') > Len(procs)
                   THEN [@ EXCEPT !.spawn = "spawned", !.proc = Len(procs')]
                   ELSE [@ EXCEPT !.spawn = "failed"]]
    /\ UNCHANGED <<phase, exc, configFile, config, paused, library, histClean, histRead,
                   dirs>>

DoDownload(arg, reply, outcome) ==
    /\ AtPrompt
    /\ LET d == do_download(arg, reply) IN
       CASE d.kind = "raise" ->
              /\ Crash(d.exc, "do_download", d.at)
              /\ UNCHANGED library
         [] d.kind = "none" ->
              /\ last' = Did("do_download", "None")
              /\ UNCHANGED <<phase, exc, library>>
         [] d.kind = "download" ->
              LET r == download(config, library, d.url, d.title, outcome) IN
              /\ library' = r.lib
              /\ last' = [Did("download", r.ret) EXCEPT !.title = d.title, !.url = d.url,
                                                       !.env = outcome]
              /\ UNCHANGED <<phase, exc>>
    /\ UNCHANGED <<configFile, config, current_process, paused, procs, histFile, mainpc,
                   pending, listeners, logged, histClean, histRead, dirs>>

\* do_history prints entry['timestamp'] and entry['title'] of every entry
DoHistory ==
    /\ AtPrompt
    /\ LET r == get_history(histFile) IN
       /\ histRead' = r
       /\ IF r.raised # "none" THEN Crash(r.raised, "do_history", "json.loads(line)")
          ELSE IF \E i \in 1..Len(r.value) :
                     ~({<<"timestamp">>, <<"title">>} \subseteq DOMAIN r.value[i])
          THEN Crash("KeyError", "do_history", "entry[key]")
          ELSE last' = Did("do_history", "None") /\ UNCHANGED <<phase, exc>>
    /\ UNCHANGED <<configFile, config, current_process, paused, procs, histFile, library,
                   mainpc, pending, listeners, logged, histClean, dirs>>

DoClearHistory ==
    /\ AtPrompt
    /\ histFile' = clear_history(histFile)
    /\ logged' = <<>>
    /\ histClean' = TRUE
    /\ last' = Did("do_clear_history", "None")
    /\ UNCHANGED <<phase, exc, configFile, config, current_process, paused, procs, library,
                   mainpc, pending, listeners, histRead, dirs>>

DoConfig(np, nt) ==
    /\ AtPrompt
    /\ LET c1 == IF np # "" THEN [config EXCEPT !.player = np] ELSE config
           c2 == IF nt # "" THEN [c1 EXCEPT !.theme = nt] ELSE c1
       IN  /\ config' = c2
           /\ IF nt # "" /\ nt \notin THEMES
              THEN Crash("KeyError", "do_config", "THEMES[new_theme]") /\ UNCHANGED configFile
              ELSE /\ configFile' = _save_config(c2)
                   /\ last' = Did("do_config", "None")
                   /\ UNCHANGED <<phase, exc>>
    /\ UNCHANGED <<current_process, paused, procs, histFile, library, mainpc, pending,
                   listeners, logged, histClean, histRead, dirs>>

DoExit ==
    /\ AtPrompt
    /\ phase' = "exited"
    /\ last' = Did("do_exit", "None")
    /\ UNCHANGED <<exc, configFile, config, current_process, paused, procs, histFile,
                   library, mainpc, pending, listeners, logged, histClean, histRead, dirs>>

----------------------------------------------------------------------------
(* The listener threads and the player processes *)

\* one turn of the loop of _terminal_playback_controls in listener thread l
ListenerStep(l, cmd) ==
    /\ phase # "start"
    /\ l \in 1..Len(listeners)
    /\ listeners[l].state = "running"
    /\ LET action == IF cmd = "p" THEN "pause" ELSE "stop"
           r == terminal_control(current_process, procs, paused, action)
           reached == IF r.raised = "none" /\ r.ret = "True" THEN current_process ELSE 0
       IN  IF cmd \in {"p", "s"}
           THEN /\ procs' = r.procs
                /\ paused' = r.paused
                /\ current_process' = r.cp
                /\ listeners' = [listeners EXCEPT ![l].state =
                                    IF r.raised # "none" THEN "died"
                                    ELSE IF cmd = "s" THEN "done" ELSE "running"]
                /\ last' = [Did(action, r.ret) EXCEPT !.listener = l, !.target = reached]
           ELSE /\ last' = [Did("sleep", "None") EXCEPT !.listener = l]
                /\ UNCHANGED <<procs, paused, current_process, listeners>>
    /\ UNCHANGED <<phase, exc, configFile, config, histFile, library, mainpc, pending,
                   logged, histClean, histRead, dirs>>

\* player process i exits: the track ended, or SIGTERM took effect
ProcExit(i) ==
    /\ i \in 1..Len(procs)
    /\ procs[i].status # "exited"
    /\ procs' = [procs EXCEPT ![i].status = "exited"]
    /\ last' = Did("proc_exit", "None")
    /\ UNCHANGED <<phase, exc, configFile, config, current_process, paused, histFile,
                   library, mainpc, pending, listeners, logged, histClean, histRead, dirs>>

----------------------------------------------------------------------------
(* play.py *)

\* play_music: [spawned, hist]
play_music(f, url, title, now, resolveOk, spawnOk) ==
    IF resolveOk /\ spawnOk
    THEN [spawned |-> TRUE, hist |-> log_play(f, now, title)]
    ELSE [spawned |-> FALSE, hist |-> f]

\* main of play.py with the search tried before the local file
PyResolve_search_first(query, files, isUrl, ytTitle, reply) ==
    IF isUrl THEN
        IF ytTitle.ok
        THEN [play |-> TRUE, url |-> query, title |-> ytTitle.title, searched |-> FALSE]
        ELSE [play |-> FALSE, url |-> <<>>, title |-> <<>>, searched |-> FALSE]
    ELSE IF reply.ok /\ reply.results # <<>>
    THEN [play |-> TRUE, url |-> reply.results[1].watch_url,
          title |-> reply.results[1].title, searched |-> TRUE]
    ELSE IF query \in files
    THEN [play |-> TRUE, url |-> query, title |-> basename(query), searched |-> TRUE]
    ELSE [play |-> FALSE, url |-> <<>>, title |-> <<>>, searched |-> TRUE]

\* main of play.py, one run of the script: what it hands play_music, if anything, and
\* whether it reached Search(query).  isUrl: "youtube.com/watch" in query; ytTitle: what
\* YouTube(query).title gives
PyResolve(query, files, isUrl, ytTitle, reply) ==
    IF query \in files
    THEN [play |-> TRUE, url |-> query, title |-> basename(query), searched |-> FALSE]
    ELSE IF isUrl THEN
        IF ytTitle.ok
        THEN [play |-> TRUE, url |-> query, title |-> ytTitle.title, searched |-> FALSE]
        ELSE [play |-> FALSE, url |-> <<>>, title |-> <<>>, searched |-> FALSE]
    ELSE IF reply.ok /\ reply.results # <<>>
    THEN [play |-> TRUE, url |-> reply.results[1].watch_url,
          title |-> reply.results[1].title, searched |-> TRUE]
    ELSE [play |-> FALSE, url |-> <<>>, title |-> <<>>, searched |-> TRUE]

PyMain(query, isUrl, ytTitle, reply, now, resolveOk, spawnOk) ==
    /\ Len(logged) < MaxHist
    /\ LET m == PyResolve(query, LocalFiles, isUrl, ytTitle, reply)
           r == play_music(histFile, m.url, m.title, now, resolveOk, spawnOk)
           did == Given(Did("py_main", "None"), PlayInput(query, <<>>, reply, <<>>),
                        m.searched)
       IN  IF m.play
           THEN /\ histFile' = r.hist
                /\ logged' = IF r.spawned THEN Append(logged, PyEntry(now, m.title))
                             ELSE logged
                /\ last' = [did EXCEPT !.op = "play_music", !.title = m.title, !.url = m.url,
                                       !.env = IF resolveOk /\ spawnOk THEN "spawned"
                                               ELSE "failed"]
           ELSE /\ last' = did
                /\ UNCHANGED <<histFile, logged>>
    /\ UNCHANGED <<phase, exc, configFile, config, current_process, paused, procs, library,
                   mainpc, pending, listeners, histClean, histRead, dirs>>

----------------------------------------------------------------------------
(* The history log's own operations, called one at a time *)

LogHistory(title, now) ==
    /\ phase = "running"
    /\ Len(logged) < MaxHist
    /\ histFile' = _log_history(histFile, now, title)
    /\ logged' = Append(logged, Entry(now, title))
    /\ last' = [Did("log_history", "None") EXCEPT !.title = title]
    /\ UNCHANGED <<phase, exc, configFile, config, current_process, paused, procs, library,
                   mainpc, pending, listeners, histClean, histRead, dirs>>

GetHistory ==
    /\ phase = "running"
    /\ histRead' = get_history(histFile)
    /\ last' = Did("get_history", IF histRead'.raised = "none" THEN "list" ELSE "raise")
    /\ UNCHANGED <<phase, exc, configFile, config, current_process, paused, procs, histFile,
                   library, mainpc, pending, listeners, logged, histClean, dirs>>

ClearHistory ==
    /\ phase = "running"
    /\ histFile' = clear_history(histFile)
    /\ logged' = <<>>
    /\ histClean' = TRUE
    /\ last' = Did("clear_history", "None")
    /\ UNCHANGED <<phase, exc, configFile, config, current_process, paused, procs, library,
                   mainpc, pending, listeners, histRead, dirs>>

----------------------------------------------------------------------------
(* Specifications *)

T1 == <<"t1">>

PlayerInputs == {"", "VLC"}
ThemeInputs == {"", "neon"}
DirInputs == {"", "dl"}
LogInputs == {"", "Y"}

ConfigPlayerInputs == {"", "vlc", "terminal"}
ConfigThemeInputs == {"", "retro", "neon"}

NoTitle == [ok |-> FALSE, title |-> <<>>]

\* every operation, from a process that has not started
Next ==
    \/ \E pl \in PlayerInputs, th \in ThemeInputs, dd \in DirInputs, sl \in LogInputs :
          Startup(pl, th, dd, sl)
    \/ \E inp \in PlayInputs, ro \in BOOLEAN, so \in BOOLEAN : DoPlay(inp, T1, ro, so)
    \/ \E ro \in BOOLEAN, so \in BOOLEAN : PlaySong(T1, ro, so)
    \/ \E arg \in {<<>>, <<"q">>}, reply \in SearchReplies, o \in DownloadOutcomes :
          DoDownload(arg, reply, o)
    \/ DoHistory
    \/ DoClearHistory
    \/ \E np \in ConfigPlayerInputs, nt \in ConfigThemeInputs : DoConfig(np, nt)
    \/ DoExit
    \/ \E l \in 1..MaxPlays, cmd \in ListenerInputs : ListenerStep(l, cmd)
    \/ \E i \in 1..MaxPlays : ProcExit(i)
    \/ \E q \in {<<"/", "a">>, <<"q">>}, reply \in SearchReplies, ro \in BOOLEAN,
          so \in BOOLEAN : PyMain(q, FALSE, NoTitle, reply, T1, ro, so)

Spec == Init /\ [][Next]_vars

\* the history log alone: entries are logged, read and cleared, by the player and by play.py
HistTitles == {<<"a">>, <<"c", QT, BS>>, <<NL, "n">>}

InitHistory == \E f \in HistFiles : Constructed(DEFAULT_CONFIG, f, <<>>)

NextHistory ==
    \/ \E t \in HistTitles : LogHistory(t, T1)
    \/ GetHistory
    \/ ClearHistory
    \/ \E yt \in {NoTitle, [ok |-> TRUE, title |-> <<"y", NL>>]}, ro \in BOOLEAN,
          so \in BOOLEAN : PyMain(<<"w">>, TRUE, yt, Unreachable, T1, ro, so)

SpecHistory == InitHistory /\ [][NextHistory]_vars

\* startup and reconfiguration, over what earlier runs left on disk
InitStartup == Init /\ library = <<>>

NextStartup ==
    \/ \E pl \in PlayerInputs, th \in ThemeInputs, dd \in DirInputs, sl \in LogInputs :
          Startup(pl, th, dd, sl)
    \/ \E np \in ConfigPlayerInputs, nt \in ConfigThemeInputs : DoConfig(np, nt)
    \/ DoExit

SpecStartup == InitStartup /\ [][NextStartup]_vars

\* the playback session: the main thread plays and reconfigures the backend, the
\* listener threads pause and stop, the player processes exit
SessionPlayInputs ==
    {PlayInput(<<"/", "a">>, <<>>, Unreachable, <<>>),
     PlayInput(<<"q">>, <<>>, Found(<<V1>>), <<"1">>),
     PlayInput(<<"q">>, <<>>, Found(<<V1>>), <<"x">>)}

InitSession ==
    \E pl \in {"terminal", "vlc"} :
        Constructed([DEFAULT_CONFIG EXCEPT !.player = pl], [exists |-> TRUE, data |-> <<>>],
                    <<>>)

NextSession ==
    \/ \E inp \in SessionPlayInputs, ro \in BOOLEAN, so \in BOOLEAN : DoPlay(inp, T1, ro, so)
    \/ \E ro \in BOOLEAN, so \in BOOLEAN : PlaySong(T1, ro, so)
    \/ \E np \in {"vlc", "terminal"} : DoConfig(np, "")
    \/ \E l \in 1..MaxPlays, cmd \in ListenerInputs : ListenerStep(l, cmd)
    \/ \E i \in 1..MaxPlays : ProcExit(i)

SpecSession == InitSession /\ [][NextSession]_vars

\* the same, with the progress the threads make on their own: the main thread goes on
\* from the listener's start to player.play, and a listener thread that is given
\* anything but the stop key takes its turn
SpecSessionLive ==
    /\ SpecSession
    /\ WF_vars(\E ro \in BOOLEAN, so \in BOOLEAN : PlaySong(T1, ro, so))
    /\ WF_vars(\E l \in 1..MaxPlays, cmd \in {"p", "x"} : ListenerStep(l, cmd))

\* the catalog: downloads into a catalog an earlier run may have filled
InitCatalog ==
    \E dd \in {"music", "dl"}, lib \in Libraries :
        Constructed([DEFAULT_CONFIG EXCEPT !.download_dir = dd],
                    [exists |-> TRUE, data |-> <<>>], lib)

NextCatalog ==
    \E arg \in {<<>>, <<"q">>}, o \in DownloadOutcomes,
       reply \in SearchReplies \cup {Found(<<V3, V2>>)} : DoDownload(arg, reply, o)

SpecCatalog == InitCatalog /\ [][NextCatalog]_vars

\* the commands of the main thread, with every answer the user and the search can give
InitCommands ==
    \E pl \in {"terminal", "vlc"}, lib \in Libraries,
       f \in {[exists |-> TRUE, data |-> <<>>], [exists |-> TRUE, data |-> GoodLine \o BadLine]} :
        Constructed([DEFAULT_CONFIG EXCEPT !.player = pl], f, lib)

NextCommands ==
    \/ \E inp \in PlayInputs, ro \in BOOLEAN, so \in BOOLEAN : DoPlay(inp, T1, ro, so)
    \/ \E ro \in BOOLEAN, so \in BOOLEAN : PlaySong(T1, ro, so)
    \/ \E arg \in {<<>>, <<"q">>}, reply \in {Unreachable, Found(<<>>), Found(<<V1>>)},
          o \in DownloadOutcomes : DoDownload(arg, reply, o)
    \/ DoHistory
    \/ DoClearHistory
    \/ DoExit

SpecCommands == InitCommands /\ [][NextCommands]_vars

\* every way a track gets played: from the catalog, from disk and from a search, on
\* either backend, by the player and by play.py, over one history file
PlaybackPlayInputs ==
    {PlayInput(<<>>, <<"1">>, Unreachable, <<>>),
     PlayInput(<<"/", "a">>, <<>>, Unreachable, <<>>),
     PlayInput(<<"q">>, <<>>, Found(<<V2, V1>>), <<"1">>)}

InitPlayback ==
    \E pl \in {"terminal", "vlc"} :
        Constructed([DEFAULT_CONFIG EXCEPT !.player = pl], [exists |-> TRUE, data |-> <<>>],
                    << <<V1.title, <<"old", "/">> \o V1.title \o <<".mp3">> >> >>)

NextPlayback ==
    \/ \E inp \in PlaybackPlayInputs, ro \in BOOLEAN, so \in BOOLEAN :
          DoPlay(inp, T1, ro, so)
    \/ \E ro \in BOOLEAN, so \in BOOLEAN : PlaySong(T1, ro, so)
    \/ \E np \in {"vlc", "terminal"} : DoConfig(np, "")
    \/ DoClearHistory
    \/ \E ro \in BOOLEAN, so \in BOOLEAN :
          PyMain(<<"/", "a">>, FALSE, NoTitle, Unreachable, T1, ro, so)

SpecPlayback == InitPlayback /\ [][NextPlayback]_vars

\* the resolution of a query: the play command and play.py are given paths that exist,
\* at the command line and at the library prompt, while the search has results for
\* them too, and queries that are no path
ResolveInputs ==
    {PlayInput(<<"/", "a">>, <<>>, Found(<<V1>>), <<"1">>),
     PlayInput(<<>>, <<"/", "a">>, Found(<<V1>>), <<"1">>),
     PlayInput(<<"q">>, <<>>, Found(<<V1>>), <<"1">>),
     PlayInput(<<>>, <<"q">>, Unreachable, <<>>),
     PlayInput(<<>>, <<"1">>, Found(<<V1>>), <<"1">>)}

InitResolve ==
    \E pl \in {"terminal", "vlc"}, lib \in Libraries :
        Constructed([DEFAULT_CONFIG EXCEPT !.player = pl], [exists |-> TRUE, data |-> <<>>],
                    lib)

NextResolve ==
    \/ \E inp \in ResolveInputs, so \in BOOLEAN : DoPlay(inp, T1, TRUE, so)
    \/ \E so \in BOOLEAN : PlaySong(T1, TRUE, so)
    \/ \E q \in {<<"/", "a">>, <<"q">>}, reply \in {Unreachable, Found(<<V1>>)},
          so \in BOOLEAN : PyMain(q, FALSE, NoTitle, reply, T1, TRUE, so)
    \/ \E yt \in {NoTitle, [ok |-> TRUE, title |-> <<"y">>]} :
          PyMain(<<"w">>, TRUE, yt, Found(<<V1>>), T1, TRUE, TRUE)
    \/ DoClearHistory

SpecResolve == InitResolve /\ [][NextResolve]_vars

----------------------------------------------------------------------------
(* Claims *)

\* C5 (SpecHistory): the history is append-only and ordered.  Whenever the log was
\* empty (never written, or cleared) and entries were then appended, reading it
\* raises nothing and returns exactly the appended entries, in append order; right
\* after a clear that is the empty sequence.
C5_HistoryAppendOnly ==
    histClean => get_history(histFile) = [raised |-> "none", value |-> logged]

\* C5 witness: two different entries were appended to an empty log and then read back
C5_Witness ==
    /\ histClean
    /\ last.op = "get_history"
    /\ Len(logged) = 2
    /\ logged[1][<<"title">>] = <<NL, "n">>
    /\ logged[2][<<"title">>] = <<"c", QT, BS>>
    /\ histRead.value = logged

\* the well-formed entries of a history file, in file order
WellFormedEntries(f) ==
    LET lines == readlines(f.data)
        good  == SelectSeq(lines, LAMBDA ln : Loads(ln).ok)
    IN  [i \in 1..Len(good) |-> Loads(good[i]).val]

\* C9 (SpecHistory): reading the history is lenient.  Whatever mix of well-formed and
\* malformed lines the file holds, get_history raises nothing and returns exactly the
\* well-formed entries, in file order.
C9_LenientRead ==
    last.op = "get_history" =>
        histRead = [raised |-> "none", value |-> WellFormedEntries(histFile)]

\* C1 (SpecSession): at most one player subprocess of the session is alive at a
\* time.  Every player process that is alive (spawned, not exited, not told to stop)
\* is the one current_process refers to.
C1_OnePlayerAlive ==
    \A i \in 1..Len(procs) : procs[i].status = "alive" => i = current_process

\* the text that a step appended to the history file
AppendedData == SubSeq(histFile'.data, Len(histFile.data) + 1, Len(histFile'.data))

\* a step appended exactly one line, an entry whose title is t
AppendsOneEntry(t) ==
    LET lines == readlines(AppendedData) IN
    /\ SubSeq(histFile'.data, 1, Len(histFile.data)) = histFile.data
    /\ Len(lines) = 1
    /\ Loads(lines[1]).ok
    /\ Loads(lines[1]).val[<<"title">>] = t

\* C2 (SpecPlayback): play() appends a history entry only after the spawn succeeds.
\* On either backend, a play() whose spawn (or whose stream-URL resolution before it)
\* fails returns False and leaves the history file as it was; a play() whose spawn
\* succeeds returns True and appends exactly one entry, with the title given.  The
\* same holds of play_music in play.py, which returns nothing.
C2_HistoryAfterSpawn ==
    [][last'.op \in {"play", "play_music"} =>
          IF last'.env = "spawned"
          THEN /\ AppendsOneEntry(last'.title)
               /\ last'.op = "play" => last'.ret = "True" /\ Len(procs') = Len(procs) + 1
          ELSE /\ histFile' = histFile
               /\ last'.op = "play" => last'.ret = "False" /\ procs' = procs]_vars

\* C2 witness: on the external backend one play() succeeded and logged its title,
\* and a later play() failed and logged nothing
C2_Witness ==
    /\ last.op = "play"
    /\ last.ret = "False"
    /\ config.player = "vlc"
    /\ Len(procs) = 1
    /\ ~procs[1].stdin
    /\ Len(logged) = 1
    /\ get_history(histFile).value = <<Entry(T1, V2.title)>>

\* C6 (SpecSession): the pause control.  When the session owns a live player process,
\* of whatever backend, a pause toggles the paused flag and returns True; when no
\* process is alive it returns False and leaves the flag alone; it never raises.
C6_PauseContract ==
    [][last'.op = "pause" =>
          IF IsRunning(procs, current_process)
          THEN paused' = ~paused /\ last'.ret = "True"
          ELSE paused' = paused /\ last'.ret = "False"]_vars

\* C7 (SpecSession): the stop control.  It tells the owned process to terminate if
\* that process is alive, after which the process is no longer alive; with no
\* process, or one already stopped, it changes nothing; it never changes the process
\* handle or the paused flag, touches no other process and never raises.
C7_StopContract ==
    [][last'.op = "stop" =>
          /\ current_process' = current_process
          /\ paused' = paused
          /\ last'.ret \in {"True", "False"}
          /\ IF current_process # 0 /\ procs[current_process].status = "alive"
             THEN /\ procs' = [procs EXCEPT ![current_process].status = "terminating"]
                  /\ last'.ret = "True"
             ELSE procs' = procs]_vars

\* C7 witness: a second stop found the session already stopped while paused, both
\* listeners having been told to stop
C7_Witness ==
    /\ last.op = "stop"
    /\ last.ret = "False"
    /\ paused
    /\ current_process = 1
    /\ procs[1].status = "exited"
    /\ Len(listeners) = 2
    /\ \A l \in 1..2 : listeners[l].state = "done"

\* C3 (SpecCatalog): download failure isolation.  A download whose downloader exits
\* nonzero, or cannot be run, returns False and leaves the catalog as it was.
C3_DownloadFailureIsolation ==
    [][(last'.op = "download" /\ last'.env \in {"nonzero", "raise"}) =>
          get_library(library') = get_library(library) /\ last'.ret = "False"]_vars

\* C3 witness: a download of a title not in the catalog failed on a nonzero exit
C3_Witness ==
    /\ last.op = "download"
    /\ last.env = "nonzero"
    /\ last.ret = "False"
    /\ Len(library) = 1
    /\ ~HasTitle(library, last.title)

UniqueTitles(lib) ==
    \A i, j \in 1..Len(lib) : lib[i][1] = lib[j][1] => i = j

\* C4 (SpecCatalog): catalog titles are unique.  The catalog never holds two rows of
\* one title, and a download that registers a title already in the catalog succeeds
\* and leaves every row, the stored path included, as it was.
C4_TitleUnique ==
    [][/\ UniqueTitles(get_library(library'))
       /\ (last'.op = "download" /\ last'.env = "zero" /\ HasTitle(library, last'.title)) =>
              get_library(library') = get_library(library) /\ last'.ret = "True"]_vars

\* C4 witness: a title the catalog held, under another path, was downloaded again
\* with success, and the old row stands
C4_Witness ==
    /\ last.op = "download"
    /\ last.ret = "True"
    /\ last.title = V1.title
    /\ config.download_dir = "music"
    /\ library[1] = <<V1.title, <<"old", "/">> \o V1.title \o <<".mp3">> >>
    /\ Len(library) = 2

\* C8 (SpecCommands): a failing search is never fatal.  When the search raises, or
\* returns fewer results than the number selected (none, for a download), the play
\* and download commands end and the command loop goes on.
C8_SearchNeverFatal ==
    (last.op \in {"do_play", "do_download"}
       /\ last.env \in {"Search(arg)", "results[int(choice)-1]", "results[0]"})
    => phase = "running"

\* there is no configuration file
ConfigAbsent == ~configFile.exists

\* there is a configuration file and it does not parse
ConfigCorrupt == configFile.exists /\ ~ConfigLoads(configFile.data).ok

\* C10 (SpecStartup): a corrupt configuration file falls back to the defaults.
\* Startup over an unparsable file does not raise and runs with the default
\* configuration; over an absent file it does not fail to load either, and runs
\* with the defaults but for what the first-run prompts set.
C10_CorruptConfigFallsBack ==
    [][(phase = "start" /\ phase' # "start" /\ (ConfigCorrupt \/ ConfigAbsent)) =>
          /\ exc' # "JSONDecodeError"
          /\ ConfigCorrupt => phase' = "running" /\ config' = DEFAULT_CONFIG
          /\ ConfigAbsent =>
                 \A k \in {"history_file", "library_db"} : config'[k] = DEFAULT_CONFIG[k]]_vars

\* C11 (SpecStartup): configuration bootstrap.  Once startup has completed, the
\* first-run prompts included, the directory the effective configuration names as
\* download_dir exists, and so does the history file.
C11_BootstrapCreatesDataDir ==
    phase = "running" => config.download_dir \in dirs /\ histFile.exists

\* C12 (SpecStartup): configuration round trip.  Whatever configuration file is on
\* disk and loads (none at all, one with keys missing, one with keys this version
\* does not know), saving what load() returns and loading again returns the same
\* configuration.
C12_SaveLoadFixedPoint ==
    LET l == _load_config(configFile) IN
    l.raised = "none" => _load_config(_save_config(l.value)) = l

\* C12 witness: a configuration loaded from a file with unknown keys and without most
\* of the known ones was saved unchanged by the config command, and loads as it was
C12_Witness ==
    /\ last.op = "do_config"
    /\ phase = "running"
    /\ {"volume", "note"} \subseteq DOMAIN config
    /\ config.note = QT
    /\ config.theme = "retro"
    /\ configFile = _save_config(config)
    /\ _load_config(configFile).value = config

\* C13 (SpecStartup): configuration merge.  Loading a configuration file that parses
\* gives a configuration with every default key and every key of the file and no
\* other; a key of the file has the file's value, known or not, and a default key the
\* file lacks has the default value.
C13_LoadMergesOverDefaults ==
    [][(phase = "start" /\ phase' # "start" /\ configFile.exists /\ ~ConfigCorrupt) =>
          LET file == ConfigLoads(configFile.data).val IN
          /\ DOMAIN config' = DOMAIN DEFAULT_CONFIG \cup DOMAIN file
          /\ \A k \in DOMAIN file : config'[k] = file[k]
          /\ \A k \in DOMAIN DEFAULT_CONFIG \ DOMAIN file : config'[k] = DEFAULT_CONFIG[k]]_vars

\* C13 witness: startup over a file that sets the theme and two unknown keys
C13_Witness ==
    /\ last.op = "startup"
    /\ phase = "running"
    /\ DOMAIN config = DOMAIN DEFAULT_CONFIG \cup {"volume", "note"}
    /\ config.theme = "retro"
    /\ config.volume = "11"
    /\ config.player = "terminal"
    /\ ~config.show_logs

\* C15 (SpecStartup): the persisted theme is always a recognized one.  Once the process
\* has started, after the first-run prompts and any config commands, the theme that
\* the configuration file on disk gives is one of dark, light, retro.
C15_PersistedThemeRecognized ==
    (phase # "start" /\ configFile.exists /\ ~ConfigCorrupt) =>
        _load_config(configFile).value.theme \in THEMES

\* the query the play command, or play.py, resolves: its argument, else the answer to
\* the library prompt
Query(inp) == IF inp.arg # <<>> THEN inp.arg ELSE inp.choice

\* the play command took the answer to the library prompt as a number
IsSelection(l) ==
    l.op \in {"do_play", "play"} /\ l.inp[1].arg = <<>> /\ isdigit(l.inp[1].choice)

\* C14 (SpecResolve): resolver precedence.  When the query given to the play command,
\* as its argument or at the library prompt, or to play.py, is a path that exists, the
\* search is not consulted and that path goes to playback under the title that is its
\* basename; the search is consulted only for a query that is no existing path.  (A
\* number answered at the library prompt is a selection, not a query.)
C14_LocalPathBeforeSearch ==
    [][last'.inp # <<>> =>
          LET query == Query(last'.inp[1]) IN
          /\ last'.searched => query \notin LocalFiles
          /\ (query \in LocalFiles /\ ~IsSelection(last')) =>
                /\ ~last'.searched
                /\ IF last'.op = "do_play"
                   THEN /\ mainpc' = "play_song"
                        /\ pending'.url = query
                        /\ pending'.title = basename(query)
                   ELSE /\ last'.op = "play_music"
                        /\ last'.url = query
                        /\ last'.title = basename(query)]_vars

\* C14 witness: a path typed at the library prompt, for which the search had a result,
\* went to _play_song under its basename without a search
C14_Witness ==
    /\ last.op = "do_play"
    /\ last.inp = <<PlayInput(<<>>, <<"/", "a">>, Found(<<V1>>), <<"1">>)>>
    /\ ~last.searched
    /\ mainpc = "play_song"
    /\ pending.url = <<"/", "a">>
    /\ pending.title = <<"a">>

\* the search results the play command displays
Displayed(inp) == SubSeq(inp.reply.results, 1, Min(SearchLimit, Len(inp.reply.results)))

\* C20 (SpecCommands): selection bounds in the play command.  A number answered at the
\* library prompt, or at the results prompt, plays the item displayed under that
\* number; a number outside the displayed range (0, or more than the number of items
\* shown) starts no playback and appends no history entry.
C20_SelectionWithinDisplayed ==
    [][(last'.inp # <<>> /\ last'.op \in {"do_play", "play"}) =>
          LET inp == last'.inp[1]
              n == int(inp.choice)
              m == int(inp.choice2)
              idle == mainpc' = "cmd" /\ procs' = procs /\ histFile' = histFile
          IN  /\ IsSelection(last') =>
                     IF 1 <= n /\ n <= Len(library)
                     THEN /\ mainpc' = "play_song"
                          /\ pending'.title = library[n][1]
                          /\ pending'.url = library[n][2]
                     ELSE idle
              /\ (last'.searched /\ inp.reply.ok /\ isdigit(inp.choice2)) =>
                     IF 1 <= m /\ m <= Len(Displayed(inp))
                     THEN /\ last'.op = "play"
                          /\ last'.title = Displayed(inp)[m].title
                          /\ last'.url = Displayed(inp)[m].watch_url
                     ELSE idle]_vars

\* C16 (SpecCatalog): download success registration.  A download whose downloader
\* exits with status 0 returns True, and the catalog then has a row of that title; if
\* it had none before, the new row's path is download_dir/title.mp3, with the
\* download_dir of the configuration in force, and the rows it had are as they were.
C16_DownloadRegisters ==
    [][(last'.op = "download" /\ last'.env = "zero") =>
          LET title == last'.title IN
          /\ last'.ret = "True"
          /\ HasTitle(get_library(library'), title)
          /\ ~HasTitle(get_library(library), title) =>
                get_library(library') =
                    Append(get_library(library),
                           <<title, <<config.download_dir, "/">> \o title \o <<".mp3">> >>)]_vars

\* C16 witness: into a catalog of one row, a title with a quote in it was downloaded to
\* the directory dl
C16_Witness ==
    /\ last.op = "download"
    /\ last.env = "zero"
    /\ last.ret = "True"
    /\ config.download_dir = "dl"
    /\ Len(library) = 2
    /\ library[2] = <<V2.title, <<"dl", "/", "c", QT, ".mp3">> >>

\* C17 (SpecSession): a new play() starts a fresh session, playing.  Right after a
\* play() that succeeded the paused flag is false, however the session before it ended.
C17_PlayStartsUnpaused ==
    [][(last'.op = "play" /\ last'.ret = "True") => ~paused']_vars

\* listener thread l has lost its player: the play() call it was started for failed to
\* spawn one, or spawned one that has exited
Orphaned(l) ==
    /\ l \in DOMAIN listeners
    /\ listeners[l].state = "running"
    /\ \/ listeners[l].spawn = "failed"
       \/ listeners[l].spawn = "spawned" /\ procs[listeners[l].proc].status = "exited"

\* C18 (SpecSessionLive): the listener is cancelled when its player is gone.  A listener
\* thread whose player process has exited, or was never spawned, eventually ends,
\* with no stop key pressed.
C18_ListenerEndsWithPlayer ==
    \A l \in 1..MaxPlays :
        Orphaned(l) ~> (l \in DOMAIN listeners /\ listeners[l].state # "running")

\* C19 (SpecSession): a listener is bound to its own playback.  A pause or stop that a
\* listener thread applies reaches only the player process spawned by the play() call
\* that the listener was started for.
C19_ListenerSignalsOwnPlayer ==
    [][(last'.listener # 0 /\ last'.target # 0) =>
          /\ listeners[last'.listener].spawn = "spawned"
          /\ listeners[last'.listener].proc = last'.target]_vars

====
